---------------------------- MODULE Spec2Model ----------------------------
(***************************************************************************)
(* Model of backend/app/main.py of job-copilot: the field-answering        *)
(* endpoint POST /ai/answer-fields (heuristic engine, LLM client, merge)   *)
(* and the profile store behind GET/PUT /profile.                          *)
(*                                                                         *)
(* Strings are sequences of one-character strings so that normalize_text,  *)
(* str.strip and the substring test `in` are computed, not assumed.        *)
(* Optional values (None | x) are sequences of length 0 or 1.              *)
(* Confidences are integers in hundredths (0.82 is 82).                    *)
(***************************************************************************)
EXTENDS Integers, Sequences, FiniteSets, TLC

\* ------------------------------------------------------------------------
\* Bounds of the model
\* ------------------------------------------------------------------------
MaxFields == 2
MaxHeurFields == 1
MaxLlmItems == 2
NumPuts == 2

\* ------------------------------------------------------------------------
\* String literals
\* ------------------------------------------------------------------------
LabelSponsor == <<"N", "e", "e", "d", " ", "v", "i", "s", "a", " ", "S", "p", "o", "n", "s", "o", "r", "s", "h", "i", "p", "?">>
LabelAuthorized == <<"A", "u", "t", "h", "o", "r", "i", "z", "e", "d", "-", "t", "o", "-", "w", "o", "r", "k", " ", "i", "n", " ", "U", "S">>
LabelWorkAuth == <<"W", "o", "r", "k", " ", " ", "A", "U", "T", "H", "O", "R", "I", "Z", "A", "T", "I", "O", "N">>
LabelSponsorAuth == <<"W", "o", "r", "k", " ", "a", "u", "t", "h", "o", "r", "i", "z", "a", "t", "i", "o", "n", "/", "s", "p", "o", "n", "s", "o", "r">>
LabelLinkedIn == <<"L", "i", "n", "k", "e", "d", "I", "n", " ", "U", "R", "L">>
LabelGitHub == <<"G", "i", "t", "H", "u", "b">>
LabelPortfolio == <<"P", "o", "r", "t", "f", "o", "l", "i", "o">>
LabelLinkedInPortfolio == <<"L", "i", "n", "k", "e", "d", "I", "n", "/", "P", "o", "r", "t", "f", "o", "l", "i", "o">>
LabelLocation == <<"L", "o", "c", "a", "t", "i", "o", "n">>
LabelFirstName == <<"F", "i", "r", "s", "t", " ", "n", "a", "m", "e">>
StrYes == <<"Y", "e", "s">>
StrNo == <<"N", "o">>
StrBlank == <<" ">>
StrEmpty == <<>>
StrCitizen == <<"U", "S", " ", "C", "i", "t", "i", "z", "e", "n">>
OptCitizen == <<"I", " ", "a", "m", " ", "a", " ", "U", ".", "S", ".", " ", "c", "i", "t", "i", "z", "e", "n">>
OptYesLong == <<"Y", "e", "s", ",", " ", "I", " ", "w", "i", "l", "l">>
OptNoLong == <<"N", "o", " ", "-", " ", "n", "e", "v", "e", "r">>
UrlLinkedIn == <<"l", "i", "/", "x">>
UrlGitHub == <<"g", "h", "/", "x">>
UrlPortfolio == <<"x", ".", "d", "e", "v">>
StrCity == <<"N", "Y", "C">>
StrKey == <<" ", "s", "k", "-", "1", " ">>
KwSponsor == <<"s", "p", "o", "n", "s", "o", "r">>
KwAuthorized == <<"a", "u", "t", "h", "o", "r", "i", "z", "e", "d", " ", "t", "o", " ", "w", "o", "r", "k">>
KwWorkAuth == <<"w", "o", "r", "k", " ", "a", "u", "t", "h", "o", "r", "i", "z", "a", "t", "i", "o", "n">>
KwLinkedIn == <<"l", "i", "n", "k", "e", "d", "i", "n">>
KwGitHub == <<"g", "i", "t", "h", "u", "b">>
KwPortfolio == <<"p", "o", "r", "t", "f", "o", "l", "i", "o">>
KwLocation == <<"l", "o", "c", "a", "t", "i", "o", "n">>
UpperChars == <<"A", "B", "C", "D", "E", "F", "G", "H", "I", "J", "K", "L", "M", "N", "O", "P", "Q", "R", "S", "T", "U", "V", "W", "X", "Y", "Z">>
LowerChars == <<"a", "b", "c", "d", "e", "f", "g", "h", "i", "j", "k", "l", "m", "n", "o", "p", "q", "r", "s", "t", "u", "v", "w", "x", "y", "z">>
DigitChars == <<"0", "1", "2", "3", "4", "5", "6", "7", "8", "9">>
WhitespaceChars == {" ", "\t", "\n"}

ReasonSponsor == "Derived from profile.work_auth.need_sponsorship."
ReasonWorkAuth == "Derived from profile.work_auth.work_authorization."
ReasonLinkedIn == "Copied from profile.links.linkedin."
ReasonGitHub == "Copied from profile.links.github."
ReasonPortfolio == "Copied from profile.links.portfolio."
ReasonLocation == "Copied from profile.personal.location."
NoticeNoKey == "OPENAI_API_KEY not set. Returned heuristic answers only."
DefaultModel == "gpt-4.1-mini"

\* ------------------------------------------------------------------------
\* Python string primitives
\* ------------------------------------------------------------------------
Range(s) == {s[i] : i \in 1..Len(s)}

\* str.lower() on one character
LowerChar(c) ==
    IF \E i \in 1..Len(UpperChars) : UpperChars[i] = c
    THEN LowerChars[CHOOSE i \in 1..Len(UpperChars) : UpperChars[i] = c]
    ELSE c

Lower(s) == [i \in 1..Len(s) |-> LowerChar(s[i])]

\* str.strip()
RECURSIVE LStrip(_)
LStrip(s) == IF s # <<>> /\ Head(s) \in WhitespaceChars THEN LStrip(Tail(s)) ELSE s

RECURSIVE RStrip(_)
RStrip(s) ==
    IF s # <<>> /\ s[Len(s)] \in WhitespaceChars
    THEN RStrip(SubSeq(s, 1, Len(s) - 1)) ELSE s

Strip(s) == RStrip(LStrip(s))

\* `t in s` for strings
Contains(s, t) == \E i \in 1..(Len(s) - Len(t) + 1) : SubSeq(s, i, i + Len(t) - 1) = t

\* re.sub(r"[^a-z0-9\s]", " ", s)
BlankNonAlnum(s) ==
    [i \in 1..Len(s) |->
        IF s[i] \in Range(LowerChars) \cup Range(DigitChars) \cup WhitespaceChars
        THEN s[i] ELSE " "]

\* re.sub(r"\s+", " ", s)
RECURSIVE CollapseWhitespace(_)
CollapseWhitespace(s) ==
    IF s = <<>> THEN <<>>
    ELSE IF Head(s) \in WhitespaceChars
         THEN <<" ">> \o CollapseWhitespace(LStrip(s))
         ELSE <<Head(s)>> \o CollapseWhitespace(Tail(s))

normalize_text(text) == Strip(CollapseWhitespace(BlankNonAlnum(Lower(text))))

Min2(a, b) == IF a <= b THEN a ELSE b
Max2(a, b) == IF a >= b THEN a ELSE b

clamp_confidence_unbounded(score) == Max2(0, score)

clamp_confidence(score) == Max2(0, Min2(100, score))

\* ------------------------------------------------------------------------
\* pick_best_option: terms outer, options inner, first hit; None is <<>>
\* ------------------------------------------------------------------------
NormalizedOptions(options) ==
    LET kept == SelectSeq(options, LAMBDA o : Strip(o) # <<>>)
    IN  [i \in 1..Len(kept) |-> <<kept[i], normalize_text(kept[i])>>]

RECURSIVE FirstOptionFor(_, _)
FirstOptionFor(nopts, nterm) ==
    IF nopts = <<>> THEN <<>>
    ELSE IF nterm # <<>> /\ Contains(Head(nopts)[2], nterm)
         THEN <<Head(nopts)[1]>>
         ELSE FirstOptionFor(Tail(nopts), nterm)

RECURSIVE PickOverTerms(_, _)
PickOverTerms(nopts, terms) ==
    IF terms = <<>> THEN <<>>
    ELSE LET hit == FirstOptionFor(nopts, normalize_text(Head(terms)))
         IN  IF hit # <<>> THEN hit ELSE PickOverTerms(nopts, Tail(terms))

pick_best_option(options, terms) == PickOverTerms(NormalizedOptions(options), terms)

\* `a or b` on Optional[str] / str: a when truthy (not None, not "")
OrElse(opt, fallback) == IF opt # <<>> /\ opt[1] # <<>> THEN opt[1] ELSE fallback

AiFieldAnswer(fid, val, conf, why, src) ==
    [field_id |-> fid, value |-> val, confidence |-> conf, reason |-> why, source |-> src]

\* ------------------------------------------------------------------------
\* build_heuristic_answers: one field, then the loop over the fields
\* ------------------------------------------------------------------------
\* body of the for-loop; <<>> when `value is None` (the `continue`).
\* First a variant that tests the portfolio branch before the LinkedIn branch.
heuristic_field_portfolio_first(profile, field) ==
    LET label == normalize_text(field.label)
        options == field.options
    IN  IF Contains(label, KwSponsor)
        THEN LET preferred == IF profile.work_auth.need_sponsorship THEN StrYes ELSE StrNo
                 selected == pick_best_option(options, <<preferred>>)
             IN  <<AiFieldAnswer(field.field_id, OrElse(selected, preferred),
                                 clamp_confidence(82), ReasonSponsor, "profile")>>
        ELSE IF Contains(label, KwAuthorized) \/ Contains(label, KwWorkAuth)
        THEN LET authorization == Strip(profile.work_auth.work_authorization)
                 selected == pick_best_option(options, <<authorization, StrYes>>)
             IN  <<AiFieldAnswer(field.field_id,
                                 OrElse(selected, OrElse(<<authorization>>, StrYes)),
                                 clamp_confidence(78), ReasonWorkAuth, "profile")>>
        ELSE IF Contains(label, KwPortfolio) /\ profile.links.portfolio # <<>>
        THEN <<AiFieldAnswer(field.field_id, profile.links.portfolio,
                             clamp_confidence(90), ReasonPortfolio, "profile")>>
        ELSE IF Contains(label, KwGitHub) /\ profile.links.github # <<>>
        THEN <<AiFieldAnswer(field.field_id, profile.links.github,
                             clamp_confidence(90), ReasonGitHub, "profile")>>
        ELSE IF Contains(label, KwLinkedIn) /\ profile.links.linkedin # <<>>
        THEN <<AiFieldAnswer(field.field_id, profile.links.linkedin,
                             clamp_confidence(90), ReasonLinkedIn, "profile")>>
        ELSE IF Contains(label, KwLocation) /\ profile.personal.location # <<>>
        THEN <<AiFieldAnswer(field.field_id, profile.personal.location,
                             clamp_confidence(82), ReasonLocation, "profile")>>
        ELSE <<>>

heuristic_field(profile, field) ==
    LET label == normalize_text(field.label)
        options == field.options
    IN  IF Contains(label, KwSponsor)
        THEN LET preferred == IF profile.work_auth.need_sponsorship THEN StrYes ELSE StrNo
                 selected == pick_best_option(options, <<preferred>>)
             IN  <<AiFieldAnswer(field.field_id, OrElse(selected, preferred),
                                 clamp_confidence(82), ReasonSponsor, "profile")>>
        ELSE IF Contains(label, KwAuthorized) \/ Contains(label, KwWorkAuth)
        THEN LET authorization == Strip(profile.work_auth.work_authorization)
                 selected == pick_best_option(options, <<authorization, StrYes>>)
             IN  <<AiFieldAnswer(field.field_id,
                                 OrElse(selected, OrElse(<<authorization>>, StrYes)),
                                 clamp_confidence(78), ReasonWorkAuth, "profile")>>
        ELSE IF Contains(label, KwLinkedIn) /\ profile.links.linkedin # <<>>
        THEN <<AiFieldAnswer(field.field_id, profile.links.linkedin,
                             clamp_confidence(90), ReasonLinkedIn, "profile")>>
        ELSE IF Contains(label, KwGitHub) /\ profile.links.github # <<>>
        THEN <<AiFieldAnswer(field.field_id, profile.links.github,
                             clamp_confidence(90), ReasonGitHub, "profile")>>
        ELSE IF Contains(label, KwPortfolio) /\ profile.links.portfolio # <<>>
        THEN <<AiFieldAnswer(field.field_id, profile.links.portfolio,
                             clamp_confidence(90), ReasonPortfolio, "profile")>>
        ELSE IF Contains(label, KwLocation) /\ profile.personal.location # <<>>
        THEN <<AiFieldAnswer(field.field_id, profile.personal.location,
                             clamp_confidence(82), ReasonLocation, "profile")>>
        ELSE <<>>

RECURSIVE build_heuristic_answers(_, _)
build_heuristic_answers(profile, fields) ==
    IF fields = <<>> THEN <<>>
    ELSE heuristic_field(profile, Head(fields)) \o build_heuristic_answers(profile, Tail(fields))

\* ------------------------------------------------------------------------
\* dict keyed by field_id, kept in insertion order (a sequence of answers)
\* ------------------------------------------------------------------------
Keys(map) == {map[i].field_id : i \in 1..Len(map)}

MapGet(map, fid) == map[CHOOSE i \in 1..Len(map) : map[i].field_id = fid]

\* map[answer.field_id] = answer: replace in place, or append a new key
MapPut(map, answer) ==
    IF answer.field_id \in Keys(map)
    THEN [i \in 1..Len(map) |-> IF map[i].field_id = answer.field_id THEN answer ELSE map[i]]
    ELSE Append(map, answer)

\* {answer.field_id: answer for answer in answers}
RECURSIVE DictOf(_)
DictOf(answers) ==
    IF answers = <<>> THEN <<>>
    ELSE MapPut(DictOf(SubSeq(answers, 1, Len(answers) - 1)), answers[Len(answers)])

\* ------------------------------------------------------------------------
\* Input domains
\* ------------------------------------------------------------------------
FieldIds == {"f1", "f2"}
UnseenFieldId == "zz"

MakeProfile(sponsor, auth, li, gh, pf, loc) ==
    [personal |-> [location |-> loc],
     links |-> [linkedin |-> li, github |-> gh, portfolio |-> pf],
     work_auth |-> [need_sponsorship |-> sponsor, work_authorization |-> auth]]

\* profiles the heuristic engine is exercised on
HeurProfiles ==
    {MakeProfile(s, a, li, gh, pf, loc) :
        s \in BOOLEAN, a \in {StrEmpty, StrBlank, StrCitizen},
        li \in {StrEmpty, UrlLinkedIn}, gh \in {StrEmpty, UrlGitHub},
        pf \in {StrEmpty, UrlPortfolio}, loc \in {StrEmpty, StrCity}}

HeurLabels ==
    {LabelSponsor, LabelAuthorized, LabelWorkAuth, LabelSponsorAuth, LabelLinkedIn,
     LabelGitHub, LabelPortfolio, LabelLinkedInPortfolio, LabelLocation, LabelFirstName}

HeurOptions == {<<>>, <<StrNo, StrYes>>, <<StrBlank, OptNoLong, OptCitizen, OptYesLong>>}

SeqsUpTo(S, n) == UNION {[1..k -> S] : k \in 0..n}

MakeField(fid, lbl, opts) == [field_id |-> fid, label |-> lbl, options |-> opts]

\* the engine only copies field_id: the k-th field of a generated list gets the k-th id
PositionalIds == <<"f1", "f2", "f3", "f4">>
HeurFieldChoices == {<<l, o>> : l \in HeurLabels, o \in HeurOptions}
HeurFieldLists ==
    {[i \in 1..Len(c) |-> MakeField(PositionalIds[i], c[i][1], c[i][2])] :
        c \in UNION {[1..k -> HeurFieldChoices] : k \in 0..MaxHeurFields}}

\* profiles and fields of the requests driven through the whole handler
StoredProfile == MakeProfile(FALSE, StrCitizen, UrlLinkedIn, UrlGitHub, UrlPortfolio, StrCity)
OverrideProfile == MakeProfile(TRUE, StrEmpty, StrEmpty, UrlGitHub, UrlPortfolio, StrCity)
OtherProfile == MakeProfile(TRUE, StrCitizen, StrEmpty, StrEmpty, StrEmpty, StrEmpty)

\* OverrideProfile has no LinkedIn URL, so a LinkedIn field there gets no heuristic answer
HandlerLabels == {LabelSponsor, LabelLinkedIn}
HandlerFieldChoices == {MakeField(f, l, <<>>) : f \in FieldIds, l \in HandlerLabels}

\* os.environ value of OPENAI_API_KEY: <<>> is unset
EnvKeyValues == {<<>>, <<StrEmpty>>, <<StrBlank>>, <<StrKey>>}

getenv(env, default) == IF env = <<>> THEN default ELSE env[1]

VARIABLES
    env_api_key,        \* os.environ.get("OPENAI_API_KEY")
    profile_store,      \* module global profile_store
    disk,               \* content of profile.json
    request,            \* AiAnswerRequest: [fields, profile]
    pc,                 \* position of the ai_answer_fields handler
    profile,            \* local: request.profile or profile_store
    heuristic_answers,  \* local of ai_answer_fields
    answer_map,         \* local of ai_answer_fields
    parsed,             \* local of call_openai_for_field_answers, <<>> until assigned
    llm_answers,        \* local of ai_answer_fields
    idx,                \* position of `for answer in llm_answers`
    used_llm, model_name, message,
    exc,                \* <<>>, or <<str(exc)>> once the except clause has run
    calls,              \* number of urlopen calls issued for this request
    response,           \* <<>> until the handler returns or fails
    put_pc, put_arg, put_local, put_ret,   \* one put_profile request per slot
    file_open, dirty,   \* writers holding profile.json open; clobbered writers
    overlapped,         \* PUT slots whose latest request ran concurrently with another
    last_clean,         \* the most recently completed PUT ran alone
    get_ret             \* last value returned by get_profile

aiVars == <<env_api_key, request, pc, profile, heuristic_answers, answer_map, parsed,
            llm_answers, idx, used_llm, model_name, message, exc, calls, response>>
storeVars == <<disk, put_pc, put_arg, put_local, put_ret, file_open, dirty,
               overlapped, last_clean, get_ret>>
vars == <<aiVars, profile_store, storeVars>>

Puts == 1..NumPuts

\* profile.json: a valid document, an empty (truncated) file, or interleaved bytes
DiskFile(st, doc) == [state |-> st, doc |-> doc]
NoProfile == <<>>

InitStore ==
    /\ profile_store = StoredProfile
    /\ disk = DiskFile("valid", <<StoredProfile>>)
    /\ put_pc = [r \in Puts |-> "idle"]
    /\ put_arg = [r \in Puts |-> StoredProfile]
    /\ put_local = [r \in Puts |-> StoredProfile]
    /\ put_ret = [r \in Puts |-> NoProfile]
    /\ file_open = {}
    /\ dirty = {}
    /\ overlapped = {}
    /\ last_clean = TRUE
    /\ get_ret = NoProfile

InitLocals ==
    /\ pc = "received"
    /\ profile = StoredProfile
    /\ heuristic_answers = <<>>
    /\ answer_map = <<>>
    /\ parsed = <<>>
    /\ llm_answers = <<>>
    /\ idx = 0
    /\ used_llm = FALSE
    /\ model_name = ""
    /\ message = ""
    /\ exc = <<>>
    /\ calls = 0
    /\ response = <<>>

\* lines 362-368: resolve the profile, run the heuristic engine, seed the map
ai_answer_fields_begin ==
    /\ pc = "received"
    /\ LET p == IF request.profile # <<>> THEN request.profile[1] ELSE profile_store
           h == build_heuristic_answers(p, request.fields)
       IN  /\ profile' = p
           /\ heuristic_answers' = h
           /\ answer_map' = DictOf(h)
    /\ used_llm' = FALSE
    /\ model_name' = ""
    /\ message' = ""
    /\ pc' = "heuristics_done"
    /\ UNCHANGED <<env_api_key, request, parsed, llm_answers, idx, exc, calls, response,
                   profile_store, storeVars>>

\* ------------------------------------------------------------------------
\* The external chat-completion endpoint and call_openai_for_field_answers
\* ------------------------------------------------------------------------
\* the reply may answer a requested field and may name a field nobody asked about
LlmFieldIds == {"f1", UnseenFieldId}
LlmConfidences == {-30, 82, 150}

\* one element of the reply's "answers" array, before validation
RawItem(ok, fid, conf) ==
    [valid |-> ok, field_id |-> fid, value |-> StrNo, confidence |-> conf,
     reason |-> "llm", source |-> "inferred"]

RawItems ==
    {RawItem(TRUE, f, c) : f \in LlmFieldIds, c \in LlmConfidences}
        \cup {RawItem(FALSE, "", 0)}

\* what urlopen can produce: an HTTPError, any other exception, or a body
Reply(k, fo, fc, sh, its) ==
    [kind |-> k, fence_open |-> fo, fence_close |-> fc, shape |-> sh, items |-> its]

ContentShapes ==
    {"not_json", "top_array", "answers_absent", "answers_number", "answers_string"}

Replies ==
    {Reply(k, FALSE, FALSE, "none", <<>>) :
        k \in {"http_error", "transport_error", "undecodable_body", "missing_choices"}}
    \cup {Reply("content", fo, fc, sh, <<>>) :
            fo \in BOOLEAN, fc \in BOOLEAN, sh \in ContentShapes}
    \cup {Reply("content", fo, fc, "answers_list", its) :
            fo \in BOOLEAN, fc \in BOOLEAN, its \in SeqsUpTo(RawItems, MaxLlmItems)}

MsgHttpError == "OpenAI API error (500): upstream failure"
MsgRequestFailed == "OpenAI request failed: timed out"
MsgUndecodable == "OpenAI request failed: Expecting value"
MsgCouldNotParse == "Could not parse OpenAI response"

\* parse_json_from_llm: fences are stripped only when the text starts with one;
\* json.loads then fails on text that is not JSON or on a dangling closing fence
parse_json_from_llm(reply) ==
    IF reply.shape = "not_json" \/ (~reply.fence_open /\ reply.fence_close)
    THEN <<>>
    ELSE <<[shape |-> reply.shape, items |-> reply.items]>>

\* lines 298-305: validate each item, clamp, drop the invalid ones
RECURSIVE validate_items(_)
validate_items(items) ==
    IF items = <<>> THEN <<>>
    ELSE (IF Head(items).valid
          THEN <<AiFieldAnswer(Head(items).field_id, Head(items).value,
                               clamp_confidence(Head(items).confidence),
                               Head(items).reason, Head(items).source)>>
          ELSE <<>>) \o validate_items(Tail(items))

\* line 237-238: `if not api_key` after strip
has_api_key_unstripped(env) == getenv(env, StrEmpty) # <<>>

has_api_key(env) == Strip(getenv(env, StrEmpty)) # <<>>

\* line 284: number of urlopen calls made for one reply (no retry loop)
urlopen_attempts_retrying(reply) == IF reply.kind = "content" THEN 1 ELSE 2

urlopen_attempts(reply) == 1

Outcome(k, answers, model, msg, n, p) ==
    [kind |-> k, answers |-> answers, model |-> model, msg |-> msg, calls |-> n, parsed |-> p]

\* result of the whole function: "return", "RuntimeError", or another exception
call_openai_for_field_answers(env, reply) ==
    IF ~has_api_key(env)
    THEN Outcome("return", <<>>, "", "", 0, <<>>)
    ELSE LET n == urlopen_attempts(reply)
         IN
         IF reply.kind = "http_error"
         THEN Outcome("RuntimeError", <<>>, "", MsgHttpError, n, <<>>)
         ELSE IF reply.kind = "transport_error"
         THEN Outcome("RuntimeError", <<>>, "", MsgRequestFailed, n, <<>>)
         ELSE IF reply.kind = "undecodable_body"
         THEN Outcome("RuntimeError", <<>>, "", MsgUndecodable, n, <<>>)
         ELSE IF reply.kind = "missing_choices" \/ parse_json_from_llm(reply) = <<>>
         THEN Outcome("RuntimeError", <<>>, "", MsgCouldNotParse, n, <<>>)
         ELSE LET p == parse_json_from_llm(reply)
              IN  IF p[1].shape = "top_array"
                  THEN Outcome("AttributeError", <<>>, "", "", n, p)
                  ELSE IF p[1].shape = "answers_number"
                  THEN Outcome("TypeError", <<>>, "", "", n, p)
                  ELSE IF p[1].shape \in {"answers_absent", "answers_string"}
                  THEN Outcome("return", <<>>, DefaultModel, "", n, p)
                  ELSE Outcome("return", validate_items(p[1].items), DefaultModel, "", n, p)

\* lines 375-377: one iteration of the merge loop
merge_answer_strict(map, answer) ==
    IF answer.field_id \notin Keys(map)
       \/ answer.confidence > MapGet(map, answer.field_id).confidence
    THEN MapPut(map, answer) ELSE map

merge_answer(map, answer) ==
    IF answer.field_id \notin Keys(map)
       \/ answer.confidence >= MapGet(map, answer.field_id).confidence
    THEN MapPut(map, answer) ELSE map

\* lines 381-382: the advisory message after the try block
final_message_always_notice(env, msg) == NoticeNoKey

final_message(env, msg) == IF ~has_api_key(env) THEN NoticeNoKey ELSE msg

AiAnswerResponse(st, answers, used, model, msg) ==
    [status |-> st, answers |-> answers, used_llm |-> used, model |-> model, message |-> msg]

\* line 371-373 and the except clause of line 378-379
ai_answer_fields_call ==
    /\ pc = "heuristics_done"
    /\ \E reply \in Replies :
         LET out == call_openai_for_field_answers(env_api_key, reply)
         IN  /\ calls' = calls + out.calls
             /\ parsed' = out.parsed
             /\ IF out.kind = "return"
                THEN /\ llm_answers' = out.answers
                     /\ model_name' = out.model
                     /\ used_llm' = (out.answers # <<>>)
                     /\ idx' = 1
                     /\ pc' = IF out.answers = <<>> THEN "after_try" ELSE "merging"
                     /\ UNCHANGED <<message, exc, response>>
                ELSE IF out.kind = "RuntimeError"
                THEN /\ message' = out.msg
                     /\ exc' = <<out.msg>>
                     /\ pc' = "after_try"
                     /\ UNCHANGED <<llm_answers, model_name, used_llm, idx, response>>
                ELSE /\ response' = <<AiAnswerResponse(500, <<>>, FALSE, "", out.kind)>>
                     /\ pc' = "failed"
                     /\ UNCHANGED <<llm_answers, model_name, used_llm, idx, message, exc>>
    /\ UNCHANGED <<env_api_key, request, profile, heuristic_answers, answer_map,
                   profile_store, storeVars>>

\* lines 374-377: `for answer in llm_answers`
ai_answer_fields_merge ==
    /\ pc = "merging"
    /\ idx <= Len(llm_answers)
    /\ answer_map' = merge_answer(answer_map, llm_answers[idx])
    /\ idx' = idx + 1
    /\ pc' = IF idx = Len(llm_answers) THEN "after_try" ELSE "merging"
    /\ UNCHANGED <<env_api_key, request, profile, heuristic_answers, parsed, llm_answers,
                   used_llm, model_name, message, exc, calls, response, profile_store,
                   storeVars>>

\* lines 381-389
ai_answer_fields_return ==
    /\ pc = "after_try"
    /\ message' = final_message(env_api_key, message)
    /\ response' = <<AiAnswerResponse(200, answer_map, used_llm, model_name,
                                      final_message(env_api_key, message))>>
    /\ pc' = "responded"
    /\ UNCHANGED <<env_api_key, request, profile, heuristic_answers, answer_map, parsed,
                   llm_answers, idx, used_llm, model_name, exc, calls, profile_store,
                   storeVars>>

Init ==
    /\ InitStore /\ InitLocals
    /\ env_api_key \in EnvKeyValues
    /\ request \in {[fields |-> fs, profile |-> p] :
                        fs \in SeqsUpTo(HandlerFieldChoices, MaxFields),
                        p \in {<<>>, <<OverrideProfile>>}}

Next ==
    \/ ai_answer_fields_begin
    \/ ai_answer_fields_call
    \/ ai_answer_fields_merge
    \/ ai_answer_fields_return

Spec == Init /\ [][Next]_vars

\* ------------------------------------------------------------------------
\* GET /profile and PUT /profile; handlers run on a thread pool, so the
\* statements of concurrent put_profile calls interleave
\* ------------------------------------------------------------------------
PutProfiles == {OverrideProfile, OtherProfile}

InProgress == {r \in Puts : put_pc[r] # "idle"}

\* line 329
get_profile ==
    /\ get_ret' = <<profile_store>>
    /\ UNCHANGED <<aiVars, profile_store, disk, put_pc, put_arg, put_local, put_ret,
                   file_open, dirty, overlapped, last_clean>>

\* line 335: profile_store = profile
put_profile_assign(r) ==
    /\ put_pc[r] = "idle"
    /\ \E p \in PutProfiles :
         /\ put_arg' = [put_arg EXCEPT ![r] = p]
         /\ profile_store' = p
    /\ put_pc' = [put_pc EXCEPT ![r] = "assigned"]
    /\ put_ret' = [put_ret EXCEPT ![r] = NoProfile]
    /\ overlapped' = IF InProgress # {} THEN overlapped \cup InProgress \cup {r}
                     ELSE overlapped \ {r}
    /\ UNCHANGED <<aiVars, disk, put_local, file_open, dirty, last_clean, get_ret>>

\* line 336: the argument of save_profile(profile_store) is read from the global
save_argument_stale(r) == put_local[r]

save_argument(r) == profile_store

put_profile_load(r) ==
    /\ put_pc[r] = "assigned"
    /\ put_local' = [put_local EXCEPT ![r] = save_argument(r)]
    /\ put_pc' = [put_pc EXCEPT ![r] = "loaded"]
    /\ UNCHANGED <<aiVars, profile_store, disk, put_arg, put_ret, file_open, dirty,
                   overlapped, last_clean, get_ret>>

\* line 150: open(..., "w") truncates the file
save_profile_open(r) ==
    /\ put_pc[r] = "loaded"
    /\ disk' = DiskFile("empty", <<>>)
    /\ dirty' = dirty \cup file_open
    /\ file_open' = file_open \cup {r}
    /\ put_pc' = [put_pc EXCEPT ![r] = "opened"]
    /\ UNCHANGED <<aiVars, profile_store, put_arg, put_local, put_ret, overlapped,
                   last_clean, get_ret>>

\* the document a writer leaves behind: its own, or interleaved bytes when
\* another writer truncated or wrote the file while this one held it open
written_document(r) ==
    {DiskFile("valid", <<put_local[r]>>)}
        \cup (IF r \in dirty THEN {DiskFile("garbled", <<>>)} ELSE {})

\* line 151 and the end of the with-block: json.dump, flush, close
save_profile_dump(r) ==
    /\ put_pc[r] = "opened"
    /\ disk' \in written_document(r)
    /\ file_open' = file_open \ {r}
    /\ dirty' = (dirty \cup file_open) \ {r}
    /\ put_pc' = [put_pc EXCEPT ![r] = "saved"]
    /\ UNCHANGED <<aiVars, profile_store, put_arg, put_local, put_ret, overlapped,
                   last_clean, get_ret>>

\* line 337: return profile_store
put_profile_return(r) ==
    /\ put_pc[r] = "saved"
    /\ put_ret' = [put_ret EXCEPT ![r] = <<profile_store>>]
    /\ put_pc' = [put_pc EXCEPT ![r] = "idle"]
    /\ last_clean' = (r \notin overlapped)
    /\ UNCHANGED <<aiVars, profile_store, disk, put_arg, put_local, file_open, dirty,
                   overlapped, get_ret>>

InitProfile ==
    /\ InitStore /\ InitLocals
    /\ env_api_key = <<>>
    /\ request = [fields |-> <<>>, profile |-> <<>>]

NextProfile ==
    \/ get_profile
    \/ \E r \in Puts :
         \/ put_profile_assign(r)
         \/ put_profile_load(r)
         \/ save_profile_open(r)
         \/ save_profile_dump(r)
         \/ put_profile_return(r)

SpecProfile == InitProfile /\ [][NextProfile]_vars

InitHeuristic ==
    /\ InitStore /\ InitLocals
    /\ env_api_key = <<>>
    /\ request \in {[fields |-> fs, profile |-> <<p>>] :
                        fs \in HeurFieldLists, p \in HeurProfiles}

NextHeuristic == ai_answer_fields_begin

SpecHeuristic == InitHeuristic /\ [][NextHeuristic]_vars

\* ------------------------------------------------------------------------
\* Vocabulary of the properties
\* ------------------------------------------------------------------------
Responded == pc = "responded"

RequestedIds == {request.fields[i].field_id : i \in 1..Len(request.fields)}

UniqueFieldIds ==
    \A i, j \in 1..Len(request.fields) :
        request.fields[i].field_id = request.fields[j].field_id => i = j

\* the credential is absent: unset, empty, or nothing but whitespace
NoCredential == Range(getenv(env_api_key, StrEmpty)) \subseteq WhitespaceChars

\* positions of the answers given for a field id
AnswersFor(answers, fid) == {j \in 1..Len(answers) : answers[j].field_id = fid}

\* the intents in priority order and what each one reads
Intents == 1..6
IntentReason ==
    <<ReasonSponsor, ReasonWorkAuth, ReasonLinkedIn, ReasonGitHub, ReasonPortfolio,
      ReasonLocation>>

LabelMatches(k, lbl) ==
    LET n == normalize_text(lbl)
    IN  CASE k = 1 -> Contains(n, KwSponsor)
          [] k = 2 -> Contains(n, KwAuthorized) \/ Contains(n, KwWorkAuth)
          [] k = 3 -> Contains(n, KwLinkedIn)
          [] k = 4 -> Contains(n, KwGitHub)
          [] k = 5 -> Contains(n, KwPortfolio)
          [] k = 6 -> Contains(n, KwLocation)

\* the profile string an intent reads is empty (sponsorship reads a boolean)
SourceEmpty(k, p) ==
    CASE k = 1 -> FALSE
      [] k = 2 -> p.work_auth.work_authorization = <<>>
      [] k = 3 -> p.links.linkedin = <<>>
      [] k = 4 -> p.links.github = <<>>
      [] k = 5 -> p.links.portfolio = <<>>
      [] k = 6 -> p.personal.location = <<>>

Matched(lbl) == {k \in Intents : LabelMatches(k, lbl)}

Least(S) == CHOOSE k \in S : \A m \in S : k <= m

\* ------------------------------------------------------------------------
\* C1: no FieldAnswer of a response has a field_id absent from the
\* request's field list, whatever answers the LLM reply names.
\* ------------------------------------------------------------------------
C1_NoUnrequestedFieldId ==
    Responded =>
        \A j \in 1..Len(response[1].answers) :
            response[1].answers[j].field_id \in RequestedIds

\* ------------------------------------------------------------------------
\* C2: for every LLM outcome the handler returns a successful response
\* (status 200); it never propagates a failure to the caller.
\* ------------------------------------------------------------------------
C2_NeverPropagatesFailure ==
    /\ pc # "failed"
    /\ response # <<>> => response[1].status = 200

\* ------------------------------------------------------------------------
\* C3: LLM answers are applied in order on top of the heuristic answers; one
\* replaces the current entry of its field_id iff there is none or its
\* confidence is >= the entry's.  Step by step, and in the final response:
\* the entry of a field_id is the last of the highest-confidence candidates,
\* the heuristic answer being the first candidate.
\* ------------------------------------------------------------------------
MergeStepRule ==
    (pc = "merging" /\ idx' = idx + 1) =>
        LET a == llm_answers[idx]
            fresh == a.field_id \notin Keys(answer_map)
        IN  IF fresh \/ a.confidence >= MapGet(answer_map, a.field_id).confidence
            THEN /\ Keys(answer_map') = Keys(answer_map) \cup {a.field_id}
                 /\ MapGet(answer_map', a.field_id) = a
                 /\ \A f \in Keys(answer_map) \ {a.field_id} :
                        MapGet(answer_map', f) = MapGet(answer_map, f)
            ELSE answer_map' = answer_map

\* the seed of a field_id is the last heuristic answer carrying it
Candidates(fid) ==
    (IF AnswersFor(heuristic_answers, fid) = {} THEN <<>>
     ELSE <<heuristic_answers[CHOOSE j \in AnswersFor(heuristic_answers, fid) :
                                 \A k \in AnswersFor(heuristic_answers, fid) : k <= j]>>)
        \o SelectSeq(llm_answers, LAMBDA a : a.field_id = fid)

IsWinner(S, j) ==
    /\ \A k \in 1..Len(S) : S[k].confidence <= S[j].confidence
    /\ \A k \in (j + 1)..Len(S) : S[k].confidence < S[j].confidence

MergeResultRule ==
    Responded =>
        /\ Keys(response[1].answers) = Keys(heuristic_answers) \cup Keys(llm_answers)
        /\ \A fid \in Keys(response[1].answers) :
             /\ Cardinality(AnswersFor(response[1].answers, fid)) = 1
             /\ \E j \in 1..Len(Candidates(fid)) :
                    /\ IsWinner(Candidates(fid), j)
                    /\ MapGet(response[1].answers, fid) = Candidates(fid)[j]

C3_MergePolicy == [][MergeStepRule]_vars /\ []MergeResultRule

\* a tie goes to the LLM answer and a later, strictly lower LLM answer changes nothing
C3_Witness ==
    /\ Responded
    /\ Len(llm_answers) = 2
    /\ "f1" \in Keys(heuristic_answers)
    /\ llm_answers[1].field_id = "f1" /\ llm_answers[2].field_id = "f1"
    /\ llm_answers[1].confidence = MapGet(heuristic_answers, "f1").confidence
    /\ llm_answers[2].confidence < llm_answers[1].confidence
    /\ MapGet(response[1].answers, "f1") = llm_answers[1]
    /\ llm_answers[1] # MapGet(heuristic_answers, "f1")

C5_NoCredentialHeuristicOnly ==
    (Responded /\ NoCredential) =>
        /\ response[1].status = 200
        /\ response[1].used_llm = FALSE
        /\ response[1].model = ""
        /\ response[1].message = NoticeNoKey
        /\ Keys(response[1].answers) = Keys(heuristic_answers)
        /\ \A j \in 1..Len(response[1].answers) :
               \E i \in 1..Len(heuristic_answers) :
                   response[1].answers[j] = heuristic_answers[i]
        /\ UniqueFieldIds => response[1].answers = heuristic_answers

C5_Witness ==
    /\ Responded
    /\ env_api_key = <<StrBlank>>
    /\ heuristic_answers # <<>>
    /\ response[1].message = NoticeNoKey
    /\ response[1].answers = heuristic_answers

\* ------------------------------------------------------------------------
\* C8: every FieldAnswer of every response has 0 <= confidence <= 1, and an
\* LLM item reporting a confidence above 1 or below 0 is taken as 1 or 0.
\* ------------------------------------------------------------------------
InUnitRange(answers) ==
    \A j \in 1..Len(answers) : answers[j].confidence >= 0 /\ answers[j].confidence <= 100

ReportedItems == IF parsed = <<>> THEN <<>> ELSE SelectSeq(parsed[1].items, LAMBDA it : it.valid)

C8_ConfidenceInUnitRange ==
    /\ InUnitRange(heuristic_answers) /\ InUnitRange(llm_answers) /\ InUnitRange(answer_map)
    /\ Responded => InUnitRange(response[1].answers)
    /\ (Responded /\ exc = <<>> /\ ~NoCredential) =>
          /\ Len(llm_answers) = Len(ReportedItems)
          /\ \A j \in 1..Len(llm_answers) :
               LET c == ReportedItems[j].confidence
               IN  llm_answers[j].confidence =
                       (IF c > 100 THEN 100 ELSE IF c < 0 THEN 0 ELSE c)

C8_Witness ==
    /\ Responded
    /\ \E j \in 1..Len(ReportedItems) :
         /\ ReportedItems[j].confidence > 100
         /\ llm_answers[j].confidence = 100
         /\ llm_answers[j].field_id \in Keys(heuristic_answers)
         /\ MapGet(response[1].answers, llm_answers[j].field_id).confidence = 100
    /\ \E j \in 1..Len(ReportedItems) :
         /\ ReportedItems[j].confidence < 0
         /\ llm_answers[j].confidence = 0

\* ------------------------------------------------------------------------
\* C9: within one request the heuristic engine runs first, then the LLM
\* client, then the merge; the external endpoint is called at most once,
\* never without a credential and never again after a failure.
\* ------------------------------------------------------------------------
SingleCallInOrder ==
    /\ pc = "received" => calls = 0
    /\ calls' # calls =>
          /\ calls = 0 /\ calls' = 1
          /\ ~NoCredential
          /\ pc = "heuristics_done"
    /\ NoCredential => calls' = 0
    /\ exc # <<>> => calls' = calls
    /\ heuristic_answers' # heuristic_answers => pc = "received" /\ calls = 0
    /\ llm_answers' # llm_answers => pc = "heuristics_done"
    /\ (pc # "received" /\ answer_map' # answer_map) =>
          pc = "merging" /\ calls = 1 /\ llm_answers # <<>>
    /\ response' # response => pc \in {"heuristics_done", "after_try"}

C9_SingleCallInOrder == [][SingleCallInOrder]_vars

C9_Witness ==
    /\ Responded
    /\ exc = <<MsgRequestFailed>>
    /\ calls = 1
    /\ heuristic_answers # <<>>

\* ------------------------------------------------------------------------
\* C6: the heuristic engine emits no answer for a field whose label matches
\* no intent, none for a field whose matched intents all read an empty
\* profile string, and never an answer whose profile source is empty.
\* ------------------------------------------------------------------------
C6_NoAnswerWithoutProfileValue ==
    pc # "received" =>
        /\ \A i \in 1..Len(request.fields) :
             LET f == request.fields[i]
             IN  (Matched(f.label) = {} \/ \A k \in Matched(f.label) : SourceEmpty(k, profile))
                     => AnswersFor(heuristic_answers, f.field_id) = {}
        /\ \A j \in 1..Len(heuristic_answers) :
             \A k \in Intents :
                 heuristic_answers[j].reason = IntentReason[k] => ~SourceEmpty(k, profile)

\* ------------------------------------------------------------------------
\* C7: at most one answer per field, determined by the first intent, in the
\* order sponsorship, work authorization, LinkedIn, GitHub, portfolio,
\* location, whose label pattern matches, whatever the profile contains.
\* ------------------------------------------------------------------------
C7_FirstMatchingIntentOnly ==
    pc # "received" =>
        \A i \in 1..Len(request.fields) :
            LET f == request.fields[i]
                hits == AnswersFor(heuristic_answers, f.field_id)
            IN  /\ Cardinality(hits) <= 1
                /\ \A j \in hits :
                       /\ Matched(f.label) # {}
                       /\ heuristic_answers[j].reason = IntentReason[Least(Matched(f.label))]

\* C7 as the code has it: the answer comes from the first intent, in that
\* order, whose label pattern matches and which, for the LinkedIn, GitHub,
\* portfolio and location intents, reads a non-empty profile string; a field
\* with no such intent gets no answer.  A later intent fires exactly when
\* every earlier matching intent is a link or location intent reading "".
Firing(lbl, p) == {k \in Matched(lbl) : k \in {1, 2} \/ ~SourceEmpty(k, p)}

C7_FirstFiringIntentOnly ==
    pc # "received" =>
        \A i \in 1..Len(request.fields) :
            LET f == request.fields[i]
                hits == AnswersFor(heuristic_answers, f.field_id)
            IN  IF Firing(f.label, profile) = {}
                THEN hits = {}
                ELSE /\ Cardinality(hits) = 1
                     /\ \A j \in hits :
                          /\ heuristic_answers[j].reason
                                 = IntentReason[Least(Firing(f.label, profile))]
                          /\ heuristic_answers[j].source = "profile"

C7_Witness ==
    /\ pc # "received"
    /\ Len(request.fields) = 1
    /\ request.fields[1].label = LabelLinkedInPortfolio
    /\ profile.links.linkedin = UrlLinkedIn
    /\ profile.links.portfolio = UrlPortfolio
    /\ Len(heuristic_answers) = 1
    /\ heuristic_answers[1].reason = ReasonLinkedIn
    /\ heuristic_answers[1].value = UrlLinkedIn

\* ------------------------------------------------------------------------
\* C10: whenever no PUT /profile is in progress the cached profile equals
\* the stored document, and each completed PUT returned the profile it was
\* given, for every interleaving of concurrent PUT requests.
\* ------------------------------------------------------------------------
CacheMatchesDisk == disk = DiskFile("valid", <<profile_store>>)

C10_CacheEqualsStorage ==
    /\ InProgress = {} => CacheMatchesDisk
    /\ \A r \in Puts :
         (put_pc[r] = "idle" /\ put_ret[r] # NoProfile) => put_ret[r] = <<put_arg[r]>>

\* C10 as the code has it: the two hold for PUT requests that ran alone.
\* Whenever no PUT is in progress and the most recently completed PUT did
\* not overlap another PUT, cache and stored document are equal (and GET
\* returns that profile); a completed PUT that did not overlap another PUT
\* returned the profile it was given.
C10_CacheEqualsStorageWhenAlone ==
    /\ (InProgress = {} /\ last_clean) => CacheMatchesDisk
    /\ \A r \in Puts :
         (put_pc[r] = "idle" /\ put_ret[r] # NoProfile /\ r \notin overlapped)
             => put_ret[r] = <<put_arg[r]>>

C10_Witness ==
    /\ InProgress = {}
    /\ last_clean
    /\ put_ret[1] = <<OtherProfile>>
    /\ put_arg[1] = OtherProfile
    /\ 1 \notin overlapped
    /\ 2 \in overlapped
    /\ get_ret = <<OtherProfile>>
    /\ disk = DiskFile("valid", <<OtherProfile>>)
====
